---- MODULE Spec2Model ----
(***************************************************************************)
(* Model of the Rusty multiplayer snake server.                            *)
(*                                                                         *)
(*   src/src/lib.rs                 Point, GameState, GameOverReason       *)
(*   src/src/requested_direction.rs RequestedDirection (the vote map)      *)
(*   src/src/game.rs                Game, Body (the simulation)            *)
(*   src/src/game_task.rs           GameTask (actor, mailbox, tick loop)   *)
(*   src/src/game_manager.rs        GameManager (directory behind a mutex) *)
(*                                                                         *)
(* Four specifications share the definitions:                              *)
(*   Spec      the whole server: callers, directory, actors, tick loops    *)
(*   GameSpec  one Game value driven directly through its crate-level      *)
(*             methods (as the unit tests of game.rs drive it)             *)
(*   CallerLiveSpec, TickerLiveSpec                                        *)
(*             Spec with the fairness the tokio scheduler provides         *)
(***************************************************************************)
EXTENDS Integers, Sequences, FiniteSets, TLC

(***************************************************************************)
(* Bounds of the model                                                     *)
(***************************************************************************)
\* games a run creates
MaxGames == 2
\* players that join over a run (user ids are unique over all games)
MaxUsers == 2
\* Tick commands the tick loops inject into one live match
MaxTicks == 2
\* tick loops spawned for one match
MaxTickers == 2
\* directory requests started over a run
MaxRequests == 4
\* capacity of a mailbox; mpsc::channel(32) in the source, scaled down
MailboxCap == 2
\* direct calls made on the Game value in GameSpec
MaxCalls == 7
\* players voting on the RequestedDirection value in VoteSpec
MaxVoters == 4
\* add_direction calls made in VoteSpec
MaxVoteCalls == 5
\* direct calls made on the Game value in PlaySpec
MaxPlayCalls == 12
\* move_in_direction calls made on the Body value in BodySpec
MaxMoves == 5
\* the largest value of a coordinate; i32::MAX in the source, scaled down
CoordMax == 31
\* the largest width and height given to GameTask::new in CreateSpec
MaxSide == 10
\* commands sent to the GameTask in TaskSpec
MaxTaskCalls == 3

(***************************************************************************)
(* Values                                                                  *)
(***************************************************************************)
Callers == {"c1", "c2"}
NoCaller == "nobody"

GameIds == 1..MaxGames
\* an identifier the directory never generated
NoSuchGame == MaxGames + 1

UserIds == 1..MaxUsers
\* an identifier no Join ever generated
NoSuchUser == MaxUsers + 1

\* Option::None
None == "None"

Direction == {"North", "South", "East", "West"}

GameOverReason == {"OutOfBounds", "CollideWithSelf", "Winner"}

\* boards (width, height) given to create_game in Spec
Boards == {<<4, 1>>, <<3, 2>>}
\* boards given to Game::new in GameSpec
GameBoards == {<<3, 1>>, <<4, 1>>, <<3, 2>>, <<4, 3>>}

Point(x, y) == [x |-> x, y |-> y]

\* the smallest value of a coordinate (i32::MIN)
CoordMin == -CoordMax - 1

\* the values of a coordinate (i32)
Coords == CoordMin..CoordMax

\* two's complement wrap-around of a sum one outside the range
Wrap(v) ==
    IF v > CoordMax THEN v - (CoordMax - CoordMin + 1)
    ELSE IF v < CoordMin THEN v + (CoordMax - CoordMin + 1)
    ELSE v

\* Point::add_direction; the value returned by a build without overflow
\* checks
AddDirection(p, d) ==
    CASE d = "North" -> Point(p.x, Wrap(p.y - 1))
      [] d = "South" -> Point(p.x, Wrap(p.y + 1))
      [] d = "East"  -> Point(Wrap(p.x + 1), p.y)
      [] d = "West"  -> Point(Wrap(p.x - 1), p.y)

\* the + 1 or - 1 of Point::add_direction overflows
AddDirectionOverflows(p, d) ==
    \/ d = "North" /\ p.y = CoordMin
    \/ d = "South" /\ p.y = CoordMax
    \/ d = "East"  /\ p.x = CoordMax
    \/ d = "West"  /\ p.x = CoordMin

\* the outcomes of a call of Point::add_direction: on overflow a build with
\* overflow checks (debug) panics and one without (release) wraps
AddDirectionOutcomes(p, d) ==
    {[status |-> "ok", point |-> AddDirection(p, d)]}
    \cup
    (IF AddDirectionOverflows(p, d) THEN {[status |-> "panicked"]} ELSE {})

Cells(s) == {s[i] : i \in 1..Len(s)}

(***************************************************************************)
(* RequestedDirection: a map user id -> Direction                          *)
(***************************************************************************)
\* RequestedDirection::new
NewRequestedDirection == [u \in {} |-> "East"]

\* add_direction that keeps a player's first vote (entry().or_insert)
AddVoteKeepsFirst(votes, user_id, direction) ==
    [u \in DOMAIN votes \cup {user_id} |->
        IF u \in DOMAIN votes THEN votes[u] ELSE direction]

\* RequestedDirection::add_direction: HashMap::insert overwrites
AddVote(votes, user_id, direction) ==
    [u \in DOMAIN votes \cup {user_id} |->
        IF u = user_id THEN direction ELSE votes[u]]

\* the tally built by calculate_direction: or_insert(1) then += 1, so a
\* direction with n votes is counted n + 1; absent directions have no entry
DirectionsCount(votes) ==
    [d \in {votes[u] : u \in DOMAIN votes} |->
        Cardinality({u \in DOMAIN votes : votes[u] = d}) + 1]

\* calculate_direction taking any direction of the tally, whatever its count
CalculateDirectionAnyVoted(votes) ==
    LET count == DirectionsCount(votes)
    IN  IF DOMAIN count = {} THEN {None} ELSE DOMAIN count

\* RequestedDirection::calculate_direction: the results one evaluation can
\* give. max_by returns a maximum of the tally; the tally is a fresh HashMap
\* with its own RandomState, so among tied maxima the iteration order, and
\* with it the element returned, differs from one evaluation to the next.
CalculateDirection(votes) ==
    LET count == DirectionsCount(votes)
    IN  IF DOMAIN count = {} THEN {None}
        ELSE {d \in DOMAIN count : \A e \in DOMAIN count : count[e] <= count[d]}

\* RequestedDirection::len
VotesLen(votes) == Cardinality(DOMAIN votes)

(***************************************************************************)
(* Body                                                                    *)
(***************************************************************************)
\* Body::new
NewBody(starting_y) ==
    [direction |-> "East",
     body |-> <<Point(2, starting_y), Point(1, starting_y), Point(0, starting_y)>>]

\* Body::head
BodyHead(rusty) == rusty.body[1]

\* move_in_direction that never removes the tail
MoveInDirectionKeepsTail(rusty, direction, food) ==
    LET new_point == AddDirection(BodyHead(rusty), direction)
    IN  [rusty |-> [direction |-> direction, body |-> <<new_point>> \o rusty.body],
         did_grow |-> new_point = food]

\* move_in_direction refusing to reverse: asked for the opposite of the
\* direction of travel, it goes straight on
MoveInDirectionNoReverse(rusty, direction, food) ==
    LET back == AddDirection(AddDirection(Point(0, 0), rusty.direction),
                             direction) = Point(0, 0)
        taken == IF back THEN rusty.direction ELSE direction
        new_point == AddDirection(BodyHead(rusty), taken)
        pushed == <<new_point>> \o rusty.body
        food_overlaps == new_point = food
    IN  [rusty |-> [direction |-> taken,
                    body |-> IF food_overlaps THEN pushed
                             ELSE SubSeq(pushed, 1, Len(pushed) - 1)],
         did_grow |-> food_overlaps]

\* Body::move_in_direction: the moved body and whether it grew
MoveInDirection(rusty, direction, food) ==
    LET new_point == AddDirection(BodyHead(rusty), direction)
        pushed == <<new_point>> \o rusty.body
        food_overlaps == new_point = food
    IN  [rusty |-> [direction |-> direction,
                    body |-> IF food_overlaps THEN pushed
                             ELSE SubSeq(pushed, 1, Len(pushed) - 1)],
         did_grow |-> food_overlaps]

\* is_collide_with_self stopping before the last cell
IsCollideIgnoringTail(rusty) ==
    \E i \in 2..(Len(rusty.body) - 1) : rusty.body[i] = BodyHead(rusty)

\* Body::is_collide_with_self
IsCollideWithSelf(rusty) ==
    \E i \in 2..Len(rusty.body) : rusty.body[i] = BodyHead(rusty)

(***************************************************************************)
(* Game                                                                    *)
(***************************************************************************)
\* Game::new placing the food at the origin instead of the board centre
NewGameFoodAtOrigin(height, width) ==
    [height |-> height,
     width |-> width,
     food |-> Point(0, 0),
     rusty |-> NewBody(height \div 2),
     game_over |-> None,
     epoch |-> 0,
     users |-> {},
     requested_directions |-> NewRequestedDirection,
     game_state_version |-> 1,
     game_state_cache |-> [last_returned_game_state_version |-> 0,
                           last_returned_game_state |-> None]]

\* Game::new(height, width); width / 2 and height / 2 are integer divisions
NewGame(height, width) ==
    [height |-> height,
     width |-> width,
     food |-> Point(width \div 2, height \div 2),
     rusty |-> NewBody(height \div 2),
     game_over |-> None,
     epoch |-> 0,
     users |-> {},
     requested_directions |-> NewRequestedDirection,
     game_state_version |-> 1,
     game_state_cache |-> [last_returned_game_state_version |-> 0,
                           last_returned_game_state |-> None]]

\* Game::add_user
AddUser(gm, user_id) == [gm EXCEPT !.users = @ \cup {user_id}]

\* Game::user_has_joined_game
UserHasJoinedGame(gm, user_id) == user_id \in gm.users

\* Game::add_user_direction
AddUserDirection(gm, user_id, direction) ==
    [gm EXCEPT !.requested_directions = AddVote(@, user_id, direction)]

\* the out-of-bounds test of Game::tick
IsOutOfBounds(p, width, height) ==
    p.x < 0 \/ p.y < 0 \/ p.x >= width \/ p.y >= height

\* the cells Game::random_point can draw
BoardCells(width, height) ==
    {Point(x, y) : x \in 0..(width - 1), y \in 0..(height - 1)}

\* generate_new_food taking its first draw, on the body or not
GenerateNewFoodAnywhere(gm) ==
    {[game |-> [gm EXCEPT !.food = p], panicked |-> FALSE] :
        p \in BoardCells(gm.width, gm.height)}

\* Game::generate_new_food: the outcomes of the random draws. A draw off the
\* body is taken as the food. Draws that keep landing on the body exceed the
\* retry limit (height * width * 2) and panic; that needs a board cell on the
\* body and is the only outcome when the body covers the board.
GenerateNewFood(gm) ==
    LET board == BoardCells(gm.width, gm.height)
        onBody == board \cap Cells(gm.rusty.body)
    IN  {[game |-> [gm EXCEPT !.food = p], panicked |-> FALSE] :
            p \in board \ onBody}
        \cup
        (IF onBody # {} THEN {[game |-> gm, panicked |-> TRUE]} ELSE {})

\* the three game-over checks of Game::tick, in source order: every check
\* that holds assigns game_over, so a later one overwrites an earlier one
GameOverChecks(gm, max_spaces) ==
    LET won == IF Len(gm.rusty.body) = max_spaces THEN "Winner" ELSE gm.game_over
        out == IF IsOutOfBounds(BodyHead(gm.rusty), gm.width, gm.height)
               THEN "OutOfBounds" ELSE won
    IN  IF IsCollideWithSelf(gm.rusty) THEN "CollideWithSelf" ELSE out

\* the simulation part of Game::tick (after the early return), for one
\* resolved direction
Simulate(gm, max_spaces, direction) ==
    LET mv == MoveInDirection(gm.rusty, direction, gm.food)
        moved == [gm EXCEPT !.rusty = mv.rusty]
        checked == [moved EXCEPT !.game_over = GameOverChecks(moved, max_spaces)]
    IN  IF mv.did_grow THEN GenerateNewFood(checked)
        ELSE {[game |-> checked, panicked |-> FALSE]}

\* Game::tick without calculate_direction: it always continues straight
TickIgnoresVotes(gm, max_spaces) ==
    LET bumped == [gm EXCEPT !.epoch = @ + 1, !.game_state_version = @ + 1]
    IN  IF bumped.game_over # None
        THEN {[game |-> bumped, panicked |-> FALSE]}
        ELSE Simulate(bumped, max_spaces, bumped.rusty.direction)

\* Game::tick without its early return: a finished game is simulated again
TickWithoutEarlyReturn(gm, max_spaces) ==
    LET bumped == [gm EXCEPT !.epoch = @ + 1, !.game_state_version = @ + 1]
    IN  UNION {
            Simulate(bumped, max_spaces,
                     IF d = None THEN bumped.rusty.direction ELSE d) :
            d \in CalculateDirection(bumped.requested_directions)}

\* Game::tick clearing the votes once it has applied them
TickClearingVotes(gm, max_spaces) ==
    LET bumped == [gm EXCEPT !.epoch = @ + 1, !.game_state_version = @ + 1]
        outcomes == UNION {
            Simulate(bumped, max_spaces,
                     IF d = None THEN bumped.rusty.direction ELSE d) :
            d \in CalculateDirection(bumped.requested_directions)}
    IN  IF bumped.game_over # None
        THEN {[game |-> bumped, panicked |-> FALSE]}
        ELSE {[game |-> [o.game EXCEPT
                            !.requested_directions = NewRequestedDirection],
               panicked |-> o.panicked] : o \in outcomes}

\* Game::tick: the outcomes of one call. The counters are bumped first, then
\* a finished game returns early.
Tick(gm, max_spaces) ==
    LET bumped == [gm EXCEPT !.epoch = @ + 1, !.game_state_version = @ + 1]
    IN  IF bumped.game_over # None
        THEN {[game |-> bumped, panicked |-> FALSE]}
        ELSE UNION {
                Simulate(bumped, max_spaces,
                         IF d = None THEN bumped.rusty.direction ELSE d) :
                d \in CalculateDirection(bumped.requested_directions)}

\* Game::into_game_state: the snapshots one call can return (the direction is
\* a fresh evaluation of calculate_direction). Nothing in the source writes
\* game_state_cache, so the cached branch is never taken.
IntoGameState(gm) ==
    IF gm.game_state_version <= gm.game_state_cache.last_returned_game_state_version
    THEN {gm.game_state_cache.last_returned_game_state}
    ELSE {[tick |-> gm.epoch,
           game_over_reason |-> gm.game_over,
           direction |-> IF d = None THEN gm.rusty.direction ELSE d,
           body |-> gm.rusty.body,
           num_users |-> VotesLen(gm.requested_directions),
           height |-> gm.height,
           width |-> gm.width,
           food |-> gm.food] :
          d \in CalculateDirection(gm.requested_directions)}

(***************************************************************************)
(* State                                                                   *)
(***************************************************************************)
VARIABLES
    games,      \* GameManager.games: the keys of the directory map
    lock,       \* the caller holding the directory mutex, or NoCaller
    pc,         \* where each caller is in its request
    req,        \* the request a caller is making
    res,        \* what a caller's last request returned
    reply,      \* each caller's oneshot reply channel
    game,       \* the Game of every spawned actor
    actor,      \* the task of each actor: none, running, exited, panicked
    mailbox,    \* each actor's mpsc channel, oldest command first
    tickWait,   \* tick loops of a match waiting on their interval
    tickSend,   \* tick loops of a match suspended in send (mailbox full)
    nextUid,    \* the next fresh user id (Uuid::new_v4)
    nreq        \* requests started so far (calls made, in GameSpec)

vars == <<games, lock, pc, req, res, reply, game, actor, mailbox,
          tickWait, tickSend, nextUid, nreq>>

\* GameCommand
Cmd(kind, rx, user_id, direction) ==
    [kind |-> kind, rx |-> rx, user_id |-> user_id, direction |-> direction]

TickCmd == Cmd("Tick", NoCaller, NoSuchUser, None)

NoRequest == [op |-> None, game_id |-> NoSuchGame, user_id |-> NoSuchUser,
              direction |-> None]

\* a oneshot channel nothing was sent on
NoReply == [status |-> "none"]
\* a oneshot channel whose sender was dropped without sending
ClosedReply == [status |-> "closed"]

\* the actors spawned so far
Spawned == DOMAIN game

\* the mpsc receiver of g is alive (its actor is in the receive loop)
ChannelOpen(g) == actor[g] = "running"

QueuedTicks(g) ==
    Cardinality({i \in 1..Len(mailbox[g]) : mailbox[g][i].kind = "Tick"})

QueuedKind(kind) ==
    Cardinality({<<g, i>> \in GameIds \X (1..MailboxCap) :
                    i <= Len(mailbox[g]) /\ mailbox[g][i].kind = kind})

Init ==
    /\ games = {}
    /\ lock = NoCaller
    /\ pc = [c \in Callers |-> "idle"]
    /\ req = [c \in Callers |-> NoRequest]
    /\ res = [c \in Callers |-> None]
    /\ reply = [c \in Callers |-> NoReply]
    /\ game = [g \in {} |-> NewGame(1, 3)]
    /\ actor = [g \in GameIds |-> "none"]
    /\ mailbox = [g \in GameIds |-> <<>>]
    /\ tickWait = [g \in GameIds |-> 0]
    /\ tickSend = [g \in GameIds |-> 0]
    /\ nextUid = 1
    /\ nreq = 0

(***************************************************************************)
(* Channels                                                                *)
(***************************************************************************)
\* a send that puts the command ahead of what is queued
EnqueueAtFront(q, cmd) == <<cmd>> \o q

\* mpsc Sender::send: the command goes behind what is queued
Enqueue(q, cmd) == Append(q, cmd)

\* dropping the receiver without dropping what is queued: the reply senders
\* of the queued commands stay alive
DropQueuedKeepsSenders(rep, g) == rep

\* the reply channels after the receiver of g's mailbox is dropped: every
\* queued command is dropped, and with it its reply sender
DropQueued(rep, g) ==
    [c \in Callers |->
        IF \E i \in 1..Len(mailbox[g]) : mailbox[g][i].rx = c
        THEN ClosedReply ELSE rep[c]]

\* oneshot::Sender::send: delivered when the receiver still exists
SendReply(rep, rx, value) ==
    IF rx = NoCaller THEN rep
    ELSE [rep EXCEPT ![rx] = [status |-> "value", value |-> value]]

\* an actor ending that takes every other running actor with it
ActorEndsAll(g, how, rep) ==
    /\ actor' = [h \in GameIds |-> IF actor[h] = "running" THEN how ELSE actor[h]]
    /\ mailbox' = [h \in GameIds |-> IF actor[h] = "running" THEN <<>> ELSE mailbox[h]]
    /\ reply' = DropQueued(rep, g)

\* the actor task of g ends (break, or unwinding from a panic): the receiver
\* is dropped with everything queued
ActorEnds(g, how, rep) ==
    /\ actor' = [actor EXCEPT ![g] = how]
    /\ mailbox' = [mailbox EXCEPT ![g] = <<>>]
    /\ reply' = DropQueued(rep, g)

\* the actor of g takes the oldest command and stays in its loop
ActorContinues(g, rep) ==
    /\ mailbox' = [mailbox EXCEPT ![g] = Tail(@)]
    /\ reply' = rep
    /\ UNCHANGED actor

Receiving(g, kind) ==
    /\ actor[g] = "running"
    /\ mailbox[g] # <<>>
    /\ mailbox[g][1].kind = kind

(***************************************************************************)
(* GameTask: the actor's receive loop, one action per command              *)
(***************************************************************************)
\* join_game replying with the dimensions the other way round
JoinGameReplySwapped(gm, user_id) ==
    [kind |-> "JoinGameReply", user_id |-> user_id,
     width |-> gm.height, height |-> gm.width]

\* GameTask::join_game
JoinGameReply(gm, user_id) ==
    [kind |-> "JoinGameReply", user_id |-> user_id,
     width |-> gm.width, height |-> gm.height]

JoinGame(g) ==
    /\ Receiving(g, "JoinGame")
    /\ LET cmd == mailbox[g][1]
           user_id == nextUid
       IN  /\ game' = [game EXCEPT ![g] = AddUser(@, user_id)]
           /\ nextUid' = nextUid + 1
           /\ ActorContinues(g, SendReply(reply, cmd.rx, JoinGameReply(game[g], user_id)))
    /\ UNCHANGED <<games, lock, pc, req, res, tickWait, tickSend, nreq>>

\* GameTask::game_status: the replies it can send
GameStatusReplies(gm, user_id) ==
    IF UserHasJoinedGame(gm, user_id)
    THEN {[kind |-> "Ok", state |-> s] : s \in IntoGameState(gm)}
    ELSE {[kind |-> "Err", error |-> "InvalidUser"]}

GameStatus(g) ==
    /\ Receiving(g, "GameStatus")
    /\ LET cmd == mailbox[g][1]
       IN  \E r \in GameStatusReplies(game[g], cmd.user_id) :
               ActorContinues(g, SendReply(reply, cmd.rx, r))
    /\ UNCHANGED <<games, lock, pc, req, res, game, tickWait, tickSend, nextUid, nreq>>

\* GameTask::update_game: the game afterwards
UpdateGameState(gm, user_id, direction) ==
    IF UserHasJoinedGame(gm, user_id)
    THEN AddUserDirection(gm, user_id, direction)
    ELSE gm

\* update_game taking its snapshot before it records the vote
UpdateGameRepliesBeforeVote(gm, user_id, direction) ==
    IF UserHasJoinedGame(gm, user_id)
    THEN {[kind |-> "Ok", state |-> s] : s \in IntoGameState(gm)}
    ELSE {[kind |-> "Err", error |-> "InvalidUser"]}

\* GameTask::update_game: the replies it can send
UpdateGameReplies(gm, user_id, direction) ==
    IF UserHasJoinedGame(gm, user_id)
    THEN {[kind |-> "Ok", state |-> s] :
            s \in IntoGameState(AddUserDirection(gm, user_id, direction))}
    ELSE {[kind |-> "Err", error |-> "InvalidUser"]}

UpdateGame(g) ==
    /\ Receiving(g, "UpdateGame")
    /\ LET cmd == mailbox[g][1]
       IN  /\ game' = [game EXCEPT ![g] = UpdateGameState(@, cmd.user_id, cmd.direction)]
           /\ \E r \in UpdateGameReplies(game[g], cmd.user_id, cmd.direction) :
                  ActorContinues(g, SendReply(reply, cmd.rx, r))
    /\ UNCHANGED <<games, lock, pc, req, res, tickWait, tickSend, nextUid, nreq>>

\* GameTask::start_game without its membership test
StartGameSpawnsForAnyone(gm, user_id) == TRUE

\* GameTask::start_game: TRUE when it spawns a tick loop, FALSE when it
\* returns Err(InvalidUser)
StartGameSpawns(gm, user_id) == UserHasJoinedGame(gm, user_id)

\* the StartGame arm: the reply is None after a spawn and Some(InvalidUser)
\* otherwise; reply_sender.send(..).expect(..) panics when the caller has
\* dropped its receiver
StartGame(g) ==
    /\ Receiving(g, "StartGame")
    /\ LET cmd == mailbox[g][1]
           spawns == StartGameSpawns(game[g], cmd.user_id)
           r == IF spawns THEN [kind |-> "Ok"]
                ELSE [kind |-> "Err", error |-> "InvalidUser"]
       IN  /\ tickWait' = [tickWait EXCEPT ![g] = IF spawns THEN @ + 1 ELSE @]
           /\ IF cmd.rx = NoCaller
              THEN ActorEnds(g, "panicked", reply)
              ELSE ActorContinues(g, SendReply(reply, cmd.rx, r))
    /\ UNCHANGED <<games, lock, pc, req, res, game, tickSend, nextUid, nreq>>

\* max_spaces of GameTask::new
MaxSpaces(gm) == gm.width * gm.height

\* the Tick arm without its break
ActorNeverBreaks(gm) == FALSE

\* the Tick arm: GameTask::tick, then break when the snapshot is game over
ActorBreaks(gm) ==
    \E s \in IntoGameState(gm) : s.game_over_reason # None

TickGame(g) ==
    /\ Receiving(g, "Tick")
    /\ \E o \in Tick(game[g], MaxSpaces(game[g])) :
          /\ game' = [game EXCEPT ![g] = o.game]
          /\ IF o.panicked THEN ActorEnds(g, "panicked", reply)
             ELSE IF ActorBreaks(o.game) THEN ActorEnds(g, "exited", reply)
             ELSE ActorContinues(g, reply)
    /\ UNCHANGED <<games, lock, pc, req, res, tickWait, tickSend, nextUid, nreq>>

\* one iteration of the receive loop of the actor of g
ActorStep(g) ==
    \/ JoinGame(g) \/ GameStatus(g) \/ UpdateGame(g) \/ StartGame(g)
    \/ TickGame(g)

(***************************************************************************)
(* The tick loop spawned by GameTask::start_game                           *)
(***************************************************************************)
\* The Arc<Sender> lives in the GameTask, which the directory never removes,
\* so command_sender.upgrade() succeeds; a loop learns that the actor is
\* gone from the error of send.

\* room in the mailbox of g
HasRoom(g) == Len(mailbox[g]) < MailboxCap

\* interval.tick() elapsed and send(Tick) completed at once
TickerSends(g) ==
    /\ tickWait[g] > 0
    /\ ChannelOpen(g) /\ HasRoom(g)
    /\ game[g].epoch + QueuedTicks(g) + tickSend[g] < MaxTicks
    /\ mailbox' = [mailbox EXCEPT ![g] = Enqueue(@, TickCmd)]
    /\ UNCHANGED <<games, lock, pc, req, res, reply, game, actor,
                   tickWait, tickSend, nextUid, nreq>>

\* interval.tick() elapsed and send(Tick) suspends on a full mailbox
TickerBlocks(g) ==
    /\ tickWait[g] > 0
    /\ ChannelOpen(g) /\ ~HasRoom(g)
    /\ game[g].epoch + QueuedTicks(g) + tickSend[g] < MaxTicks
    /\ tickWait' = [tickWait EXCEPT ![g] = @ - 1]
    /\ tickSend' = [tickSend EXCEPT ![g] = @ + 1]
    /\ UNCHANGED <<games, lock, pc, req, res, reply, game, actor,
                   mailbox, nextUid, nreq>>

\* a suspended send(Tick) completes
TickerResumes(g) ==
    /\ tickSend[g] > 0
    /\ ChannelOpen(g) /\ HasRoom(g)
    /\ mailbox' = [mailbox EXCEPT ![g] = Enqueue(@, TickCmd)]
    /\ tickWait' = [tickWait EXCEPT ![g] = @ + 1]
    /\ tickSend' = [tickSend EXCEPT ![g] = @ - 1]
    /\ UNCHANGED <<games, lock, pc, req, res, reply, game, actor, nextUid, nreq>>

\* the tick loop without its break on Err: it goes round again
TickerIgnoresClosed(g) ==
    /\ tickWait[g] > 0
    /\ ~ChannelOpen(g)
    /\ UNCHANGED vars

\* send(Tick) returns Err (channel closed) at the next tick: break
TickerStops(g) ==
    /\ tickWait[g] > 0
    /\ ~ChannelOpen(g)
    /\ tickWait' = [tickWait EXCEPT ![g] = @ - 1]
    /\ UNCHANGED <<games, lock, pc, req, res, reply, game, actor,
                   mailbox, tickSend, nextUid, nreq>>

\* a suspended send(Tick) returns Err when the receiver is dropped: break
TickerWakesClosed(g) ==
    /\ tickSend[g] > 0
    /\ ~ChannelOpen(g)
    /\ tickSend' = [tickSend EXCEPT ![g] = @ - 1]
    /\ UNCHANGED <<games, lock, pc, req, res, reply, game, actor,
                   mailbox, tickWait, nextUid, nreq>>

(***************************************************************************)
(* GameManager: the directory, as used by concurrent callers               *)
(*                                                                         *)
(* A caller is an async task: one action runs it from one suspension point *)
(* (lock().await, send().await, resp_rx.await) to the next one at which it *)
(* has to wait.                                                            *)
(***************************************************************************)
\* a GameManager method returns: its arguments and its oneshot receiver are
\* dropped
Return(c, result) ==
    /\ pc' = [pc EXCEPT ![c] = "idle"]
    /\ req' = [req EXCEPT ![c] = NoRequest]
    /\ res' = [res EXCEPT ![c] = result]
    /\ reply' = [reply EXCEPT ![c] = NoReply]

\* the id create_game generates: one the directory never had
FreshGameId == Cardinality(Spawned) + 1

\* GameTask::new: the actor task is spawned with a new Game
SpawnActor(g, width, height) ==
    /\ game' = [x \in Spawned \cup {g} |->
                  IF x = g THEN NewGame(height, width) ELSE game[x]]
    /\ actor' = [actor EXCEPT ![g] = "running"]

\* an insert that replaces the directory by the new entry
InsertedAlone(keys, game_id) == {game_id}

\* the keys of the directory after create_game's insert
Inserted(keys, game_id) == keys \cup {game_id}

\* create_game when the mutex is free: it runs to its return
CreateGame(c) ==
    /\ pc[c] = "idle"
    /\ nreq < MaxRequests
    /\ Cardinality(Spawned) < MaxGames
    /\ lock = NoCaller
    /\ \E b \in Boards : SpawnActor(FreshGameId, b[1], b[2])
    /\ games' = Inserted(games, FreshGameId)
    /\ Return(c, "Ok")
    /\ nreq' = nreq + 1
    /\ UNCHANGED <<lock, mailbox, tickWait, tickSend, nextUid>>

\* create_game when the mutex is held: GameTask::new has spawned the actor,
\* the id is generated, and the caller suspends in lock().await
CreateGameSpawn(c) ==
    /\ pc[c] = "idle"
    /\ nreq < MaxRequests
    /\ Cardinality(Spawned) < MaxGames
    /\ lock # NoCaller
    /\ \E b \in Boards : SpawnActor(FreshGameId, b[1], b[2])
    /\ req' = [req EXCEPT ![c] = [NoRequest EXCEPT !.op = "create",
                                                   !.game_id = FreshGameId]]
    /\ pc' = [pc EXCEPT ![c] = "create"]
    /\ nreq' = nreq + 1
    /\ UNCHANGED <<games, lock, res, reply, mailbox, tickWait, tickSend,
                   nextUid>>

\* create_game resumes with the guard: insert and return
CreateGameInsert(c) ==
    /\ pc[c] = "create"
    /\ lock = NoCaller
    /\ games' = Inserted(games, req[c].game_id)
    /\ Return(c, "Ok")
    /\ UNCHANGED <<lock, game, actor, mailbox, tickWait, tickSend,
                   nextUid, nreq>>

\* the user ids a caller can present: those generated so far, or one that
\* never was
KnownUsers == (1..(nextUid - 1)) \cup {NoSuchUser}

\* the game ids a caller can present: those generated so far (registered in
\* the directory or not yet), or one that never was
GameArgs == Spawned \cup {NoSuchGame}

\* the directions a caller submits
DirectionArgs == {"West", "South"}

\* the requests a caller can make now (the arguments are inputs of the call;
\* Join and Start are limited by MaxUsers and MaxTickers)
Requests ==
    {[NoRequest EXCEPT !.op = "JoinGame", !.game_id = g] :
        g \in {x \in GameArgs :
                 nextUid + QueuedKind("JoinGame") <= MaxUsers}}
    \cup
    {[NoRequest EXCEPT !.op = "StartGame", !.game_id = g, !.user_id = u] :
        g \in {x \in GameArgs :
                 x \in games =>
                    tickWait[x] + tickSend[x] + QueuedKind("StartGame") < MaxTickers},
        u \in KnownUsers}
    \cup
    {[NoRequest EXCEPT !.op = "GameStatus", !.game_id = g, !.user_id = u] :
        g \in GameArgs, u \in KnownUsers}
    \cup
    {[NoRequest EXCEPT !.op = "UpdateGame", !.game_id = g, !.user_id = u,
                       !.direction = d] :
        g \in GameArgs, u \in KnownUsers, d \in DirectionArgs}

\* the caller has the guard of games.lock().await and its arguments
Locked(c) ==
    /\ lock' = c
    /\ \E r \in Requests : req' = [req EXCEPT ![c] = r]
    /\ pc' = [pc EXCEPT ![c] = "lookup"]

\* join_game, start_game, update_game or game_status is called and the
\* mutex is free
CallLookup(c) ==
    /\ pc[c] = "idle"
    /\ nreq < MaxRequests
    /\ lock = NoCaller
    /\ Locked(c)
    /\ nreq' = nreq + 1
    /\ UNCHANGED <<games, res, reply, game, actor, mailbox, tickWait, tickSend,
                   nextUid>>

\* the same call when the mutex is held: the caller suspends in lock().await
CallLookupWaits(c) ==
    /\ pc[c] = "idle"
    /\ nreq < MaxRequests
    /\ lock # NoCaller
    /\ pc' = [pc EXCEPT ![c] = "lock"]
    /\ nreq' = nreq + 1
    /\ UNCHANGED <<games, lock, req, res, reply, game, actor, mailbox,
                   tickWait, tickSend, nextUid>>

\* lock().await completes for a suspended caller
Acquire(c) ==
    /\ pc[c] = "lock"
    /\ lock = NoCaller
    /\ Locked(c)
    /\ UNCHANGED <<games, res, reply, game, actor, mailbox, tickWait, tickSend,
                   nextUid, nreq>>

\* a lookup that finds every spawned actor, registered or not
FoundAmongSpawned(keys, game_id) == game_id \in Spawned

\* games.get(&game_id) finds the key
Found(keys, game_id) == game_id \in keys

\* the command a request sends
CommandOf(c, r) == Cmd(r.op, c, r.user_id, r.direction)

\* the mutex after the lookup: the guard lives to the end of the match
\* statement (join_game, start_game) or of the function (update_game,
\* game_status), so the Some arm keeps it while it sends and awaits
LockWhileWaiting(c) == c

\* a guard that is never dropped: the mutex stays as it is
LockKeptAfterReturn == lock

\* the mutex once the request has returned
LockAfterReturn == NoCaller

\* the caller suspends with its command sent (to "recv") or to be sent
Suspend(c, at) ==
    /\ pc' = [pc EXCEPT ![c] = at]
    /\ lock' = LockWhileWaiting(c)
    /\ UNCHANGED res

\* games.get(&game_id) is None: Err(InvalidGame)
LookupNone(c) ==
    /\ pc[c] = "lookup"
    /\ ~Found(games, req[c].game_id)
    /\ Return(c, "InvalidGame")
    /\ lock' = LockAfterReturn
    /\ UNCHANGED <<games, game, actor, mailbox, tickWait, tickSend,
                   nextUid, nreq>>

\* games.get(&game_id) is Some and send_command enqueues the command: the
\* caller suspends in resp_rx.await
LookupSend(c) ==
    /\ pc[c] = "lookup"
    /\ Found(games, req[c].game_id)
    /\ LET g == req[c].game_id
       IN  /\ ChannelOpen(g) /\ HasRoom(g)
           /\ mailbox' = [mailbox EXCEPT ![g] = Enqueue(@, CommandOf(c, req[c]))]
    /\ reply' = [reply EXCEPT ![c] = NoReply]
    /\ Suspend(c, "recv")
    /\ UNCHANGED <<games, req, game, actor, tickWait, tickSend, nextUid, nreq>>

\* games.get(&game_id) is Some and the mailbox is full: the caller suspends
\* in sender.send(command).await
LookupBlocks(c) ==
    /\ pc[c] = "lookup"
    /\ Found(games, req[c].game_id)
    /\ LET g == req[c].game_id
       IN  ChannelOpen(g) /\ ~HasRoom(g)
    /\ reply' = [reply EXCEPT ![c] = NoReply]
    /\ Suspend(c, "send")
    /\ UNCHANGED <<games, req, game, actor, mailbox, tickWait, tickSend,
                   nextUid, nreq>>

\* the result when send_command finds the receiver gone: send returns Err,
\* the command is dropped with its reply sender, and resp_rx.await is Err
ResultClosed == "Internal"

\* games.get(&game_id) is Some and the actor is gone
LookupClosed(c) ==
    /\ pc[c] = "lookup"
    /\ Found(games, req[c].game_id)
    /\ ~ChannelOpen(req[c].game_id)
    /\ Return(c, ResultClosed)
    /\ lock' = LockAfterReturn
    /\ UNCHANGED <<games, game, actor, mailbox, tickWait, tickSend,
                   nextUid, nreq>>

\* a suspended sender.send(command).await completes
SendCommand(c) ==
    /\ pc[c] = "send"
    /\ LET g == req[c].game_id
       IN  /\ ChannelOpen(g) /\ HasRoom(g)
           /\ mailbox' = [mailbox EXCEPT ![g] = Enqueue(@, CommandOf(c, req[c]))]
    /\ pc' = [pc EXCEPT ![c] = "recv"]
    /\ UNCHANGED <<games, lock, req, res, reply, game, actor, tickWait, tickSend,
                   nextUid, nreq>>

\* a suspended sender.send(command).await returns Err: the receiver was
\* dropped
SendCommandFails(c) ==
    /\ pc[c] = "send"
    /\ ~ChannelOpen(req[c].game_id)
    /\ Return(c, ResultClosed)
    /\ lock' = LockAfterReturn
    /\ UNCHANGED <<games, game, actor, mailbox, tickWait, tickSend,
                   nextUid, nreq>>

\* what the match on resp_rx.await returns to the caller
ResultOf(rep) ==
    IF rep.status = "closed" THEN "Internal"
    ELSE IF rep.value.kind = "Err" THEN rep.value.error
    ELSE "Ok"

\* resp_rx.await completes; the function returns and drops the guard
Receive(c) ==
    /\ pc[c] = "recv"
    /\ reply[c].status # "none"
    /\ Return(c, ResultOf(reply[c]))
    /\ lock' = LockAfterReturn
    /\ UNCHANGED <<games, game, actor, mailbox, tickWait, tickSend,
                   nextUid, nreq>>

\* a mailbox once caller c has dropped its reply receiver
Orphaned(q, c) ==
    [i \in 1..Len(q) |-> IF q[i].rx = c THEN [q[i] EXCEPT !.rx = NoCaller] ELSE q[i]]

\* the caller's future is dropped while it awaits the reply (a cancelled
\* request): the receiver and the guard are dropped with it
Abandon(c) ==
    /\ pc[c] = "recv"
    /\ reply[c].status = "none"
    /\ mailbox' = [g \in GameIds |-> Orphaned(mailbox[g], c)]
    /\ Return(c, None)
    /\ lock' = NoCaller
    /\ UNCHANGED <<games, game, actor, tickWait, tickSend, nextUid, nreq>>

(***************************************************************************)
(* Spec: the server                                                        *)
(***************************************************************************)
Next ==
    \/ \E c \in Callers : CreateGame(c)
    \/ \E c \in Callers : CreateGameSpawn(c)
    \/ \E c \in Callers : CreateGameInsert(c)
    \/ \E c \in Callers : CallLookup(c)
    \/ \E c \in Callers : CallLookupWaits(c)
    \/ \E c \in Callers : Acquire(c)
    \/ \E c \in Callers : LookupNone(c)
    \/ \E c \in Callers : LookupSend(c)
    \/ \E c \in Callers : LookupBlocks(c)
    \/ \E c \in Callers : LookupClosed(c)
    \/ \E c \in Callers : SendCommand(c)
    \/ \E c \in Callers : SendCommandFails(c)
    \/ \E c \in Callers : Receive(c)
    \/ \E c \in Callers : Abandon(c)
    \/ \E g \in GameIds : JoinGame(g)
    \/ \E g \in GameIds : GameStatus(g)
    \/ \E g \in GameIds : UpdateGame(g)
    \/ \E g \in GameIds : StartGame(g)
    \/ \E g \in GameIds : TickGame(g)
    \/ \E g \in GameIds : TickerSends(g)
    \/ \E g \in GameIds : TickerBlocks(g)
    \/ \E g \in GameIds : TickerResumes(g)
    \/ \E g \in GameIds : TickerStops(g)
    \/ \E g \in GameIds : TickerWakesClosed(g)

Spec == Init /\ [][Next]_vars

(***************************************************************************)
(* Spec under the scheduling tokio provides: a task that can run is        *)
(* eventually polled. CallerLiveSpec assumes it of the callers'            *)
(* resumptions only, TickerLiveSpec of the tick loops only. New calls and  *)
(* cancellations are inputs and carry no fairness.                         *)
(***************************************************************************)
TickerStep(g) ==
    \/ TickerSends(g) \/ TickerBlocks(g) \/ TickerResumes(g)
    \/ TickerStops(g) \/ TickerWakesClosed(g)

CallerResumes(c) ==
    \/ CreateGameInsert(c) \/ Acquire(c)
    \/ LookupNone(c) \/ LookupSend(c) \/ LookupBlocks(c) \/ LookupClosed(c)
    \/ SendCommand(c) \/ SendCommandFails(c) \/ Receive(c)

CallerFairness == \A c \in Callers : WF_vars(CallerResumes(c))

CallerLiveSpec == Init /\ [][Next]_vars /\ CallerFairness

TickerFairness == \A g \in GameIds : WF_vars(TickerStep(g))

TickerLiveSpec == Init /\ [][Next]_vars /\ TickerFairness

(***************************************************************************)
(* FairSpec: Spec under the weakest scheduling assumption: while some task *)
(* can run (a caller can resume or an actor has a command to receive), the *)
(* runtime eventually polls one of them. New calls, cancellations and the  *)
(* tick loops carry no fairness.                                           *)
(***************************************************************************)
\* a task runs: a caller resumes, or an actor receives a command
TaskStep ==
    \/ \E c \in Callers : CallerResumes(c)
    \/ \E g \in GameIds : ActorStep(g)

FairScheduling == WF_vars(TaskStep)

FairSpec == Init /\ [][Next]_vars /\ FairScheduling

(***************************************************************************)
(* GameSpec: one Game, created by Game::new and then driven by direct      *)
(* calls of its methods in any order                                       *)
(***************************************************************************)
\* the Game under test: the first identifier
TheGame == CHOOSE g \in GameIds : (g - 1) \notin GameIds

GameInit ==
    /\ games = {}
    /\ lock = NoCaller
    /\ pc = [c \in Callers |-> "idle"]
    /\ req = [c \in Callers |-> NoRequest]
    /\ res = [c \in Callers |-> None]
    /\ reply = [c \in Callers |-> NoReply]
    /\ \E b \in GameBoards : game = [g \in {TheGame} |-> NewGame(b[2], b[1])]
    /\ actor = [g \in GameIds |-> IF g = TheGame THEN "running" ELSE "none"]
    /\ mailbox = [g \in GameIds |-> <<>>]
    /\ tickWait = [g \in GameIds |-> 0]
    /\ tickSend = [g \in GameIds |-> 0]
    /\ nextUid = 1
    /\ nreq = 0

\* a call can be made: the value exists (no panic has unwound its owner)
Callable ==
    /\ actor[TheGame] = "running"
    /\ nreq < MaxCalls
    /\ nreq' = nreq + 1

\* game.tick(max_spaces)
CallTick ==
    /\ Callable
    /\ \E o \in Tick(game[TheGame], MaxSpaces(game[TheGame])) :
          /\ game' = [game EXCEPT ![TheGame] = o.game]
          /\ actor' = [actor EXCEPT ![TheGame] =
                          IF o.panicked THEN "panicked" ELSE @]
    /\ UNCHANGED <<games, lock, pc, req, res, reply, mailbox, tickWait,
                   tickSend, nextUid>>

\* game.add_user(user_id)
CallAddUser ==
    /\ Callable
    /\ \E u \in UserIds : game' = [game EXCEPT ![TheGame] = AddUser(@, u)]
    /\ UNCHANGED <<games, lock, pc, req, res, reply, actor, mailbox, tickWait,
                   tickSend, nextUid>>

\* game.add_user_direction(user_id, direction)
CallAddUserDirection ==
    /\ Callable
    /\ \E u \in UserIds, d \in Direction :
          game' = [game EXCEPT ![TheGame] = AddUserDirection(@, u, d)]
    /\ UNCHANGED <<games, lock, pc, req, res, reply, actor, mailbox, tickWait,
                   tickSend, nextUid>>

GameNext == CallTick \/ CallAddUser \/ CallAddUserDirection

GameSpec == GameInit /\ [][GameNext]_vars

(***************************************************************************)
(* VoteSpec: one RequestedDirection value (the vote map of a Game), driven *)
(* by direct calls of add_direction and calculate_direction, as its unit   *)
(* tests drive it                                                          *)
(***************************************************************************)
Voters == 1..MaxVoters

\* the test making the calls
Tester == CHOOSE c \in Callers : TRUE

\* the RequestedDirection under test
TheVotes == game[TheGame].requested_directions

VoteInit ==
    /\ games = {}
    /\ lock = NoCaller
    /\ pc = [c \in Callers |-> "idle"]
    /\ req = [c \in Callers |-> NoRequest]
    /\ res = [c \in Callers |-> None]
    /\ reply = [c \in Callers |-> NoReply]
    /\ game = [g \in {TheGame} |-> NewGame(3, 4)]
    /\ actor = [g \in GameIds |-> IF g = TheGame THEN "running" ELSE "none"]
    /\ mailbox = [g \in GameIds |-> <<>>]
    /\ tickWait = [g \in GameIds |-> 0]
    /\ tickSend = [g \in GameIds |-> 0]
    /\ nextUid = 1
    /\ nreq = 0

\* requested_direction.add_direction(user_id, direction); req keeps the
\* arguments of the call
CallAddDirection ==
    /\ nreq < MaxVoteCalls
    /\ \E u \in Voters, d \in Direction :
          /\ game' = [game EXCEPT ![TheGame].requested_directions = AddVote(@, u, d)]
          /\ req' = [req EXCEPT ![Tester] =
                        [NoRequest EXCEPT !.op = "add_direction",
                                          !.user_id = u, !.direction = d]]
    /\ nreq' = nreq + 1
    /\ UNCHANGED <<games, lock, pc, res, reply, actor, mailbox, tickWait,
                   tickSend, nextUid>>

\* requested_direction.calculate_direction(); res keeps what it returned
CallCalculateDirection ==
    /\ \E r \in CalculateDirection(TheVotes) :
          res' = [res EXCEPT ![Tester] = r]
    /\ req' = [req EXCEPT ![Tester] =
                  [NoRequest EXCEPT !.op = "calculate_direction"]]
    /\ UNCHANGED <<games, lock, pc, reply, game, actor, mailbox, tickWait,
                   tickSend, nextUid, nreq>>

VoteNext == CallAddDirection \/ CallCalculateDirection

VoteSpec == VoteInit /\ [][VoteNext]_vars

(***************************************************************************)
(* PlaySpec: one Game on a small board, played by one player through       *)
(* add_user_direction and tick for long enough to fill the board           *)
(***************************************************************************)
\* boards (width, height) given to Game::new in PlaySpec
PlayBoards == {<<3, 2>>, <<2, 3>>, <<3, 3>>, <<1, 4>>}

\* the player voting
ThePlayer == CHOOSE u \in UserIds : (u - 1) \notin UserIds

PlayInit ==
    /\ games = {}
    /\ lock = NoCaller
    /\ pc = [c \in Callers |-> "idle"]
    /\ req = [c \in Callers |-> NoRequest]
    /\ res = [c \in Callers |-> None]
    /\ reply = [c \in Callers |-> NoReply]
    /\ \E b \in PlayBoards : game = [g \in {TheGame} |-> NewGame(b[2], b[1])]
    /\ actor = [g \in GameIds |-> IF g = TheGame THEN "running" ELSE "none"]
    /\ mailbox = [g \in GameIds |-> <<>>]
    /\ tickWait = [g \in GameIds |-> 0]
    /\ tickSend = [g \in GameIds |-> 0]
    /\ nextUid = 1
    /\ nreq = 0

\* a call can be made: the value exists (no panic has unwound its owner)
Playable ==
    /\ actor[TheGame] = "running"
    /\ nreq < MaxPlayCalls
    /\ nreq' = nreq + 1

\* game.add_user_direction(player, direction)
PlayVote ==
    /\ Playable
    /\ \E d \in Direction :
          game' = [game EXCEPT ![TheGame] = AddUserDirection(@, ThePlayer, d)]
    /\ UNCHANGED <<games, lock, pc, req, res, reply, actor, mailbox, tickWait,
                   tickSend, nextUid>>

\* game.tick(max_spaces)
PlayTick ==
    /\ Playable
    /\ \E o \in Tick(game[TheGame], MaxSpaces(game[TheGame])) :
          /\ game' = [game EXCEPT ![TheGame] = o.game]
          /\ actor' = [actor EXCEPT ![TheGame] =
                          IF o.panicked THEN "panicked" ELSE @]
    /\ UNCHANGED <<games, lock, pc, req, res, reply, mailbox, tickWait,
                   tickSend, nextUid>>

PlayNext == PlayVote \/ PlayTick

PlaySpec == PlayInit /\ [][PlayNext]_vars

(***************************************************************************)
(* BodySpec: one Body value, created by Body::new and driven by direct     *)
(* calls of move_in_direction, as the unit tests of game.rs drive it       *)
(***************************************************************************)
\* the Body under test
TheBody == game[TheGame].rusty

\* the food positions given to move_in_direction: the cell the head moves
\* to, the cell the head is on, and a cell away from the body
FoodArgs(rusty, direction) ==
    {AddDirection(BodyHead(rusty), direction), BodyHead(rusty), Point(9, 9)}

BodyInit ==
    /\ games = {}
    /\ lock = NoCaller
    /\ pc = [c \in Callers |-> "idle"]
    /\ req = [c \in Callers |-> NoRequest]
    /\ res = [c \in Callers |-> None]
    /\ reply = [c \in Callers |-> NoReply]
    /\ \E h \in {1, 2, 3} : game = [g \in {TheGame} |-> NewGame(h, 4)]
    /\ actor = [g \in GameIds |-> IF g = TheGame THEN "running" ELSE "none"]
    /\ mailbox = [g \in GameIds |-> <<>>]
    /\ tickWait = [g \in GameIds |-> 0]
    /\ tickSend = [g \in GameIds |-> 0]
    /\ nextUid = 1
    /\ nreq = 0

\* rusty.move_in_direction(direction, food); req keeps the arguments and res
\* what the call returned
CallMoveInDirection ==
    /\ nreq < MaxMoves
    /\ \E d \in Direction :
          \E food \in FoodArgs(TheBody, d) :
              LET mv == MoveInDirection(TheBody, d, food)
              IN  /\ game' = [game EXCEPT ![TheGame].rusty = mv.rusty]
                  /\ res' = [res EXCEPT ![Tester] = mv.did_grow]
                  /\ req' = [req EXCEPT ![Tester] =
                                [op |-> "move_in_direction", direction |-> d,
                                 food |-> food]]
    /\ nreq' = nreq + 1
    /\ UNCHANGED <<games, lock, pc, reply, actor, mailbox, tickWait, tickSend,
                   nextUid>>

BodyNext == CallMoveInDirection

BodySpec == BodyInit /\ [][BodyNext]_vars

(***************************************************************************)
(* PointSpec: direct calls of Point::add_direction on any Point            *)
(***************************************************************************)
\* the test is about to call p.add_direction(&d) with any p and d
PointInit ==
    /\ games = {}
    /\ lock = NoCaller
    /\ pc = [c \in Callers |-> IF c = Tester THEN "call" ELSE "idle"]
    /\ \E x \in Coords, y \in Coords, d \in Direction :
          req = [c \in Callers |->
                    IF c = Tester
                    THEN [op |-> "point_add_direction", point |-> Point(x, y),
                          direction |-> d]
                    ELSE NoRequest]
    /\ res = [c \in Callers |-> None]
    /\ reply = [c \in Callers |-> NoReply]
    /\ game = [g \in {} |-> NewGame(1, 3)]
    /\ actor = [g \in GameIds |-> "none"]
    /\ mailbox = [g \in GameIds |-> <<>>]
    /\ tickWait = [g \in GameIds |-> 0]
    /\ tickSend = [g \in GameIds |-> 0]
    /\ nextUid = 1
    /\ nreq = 0

\* p.add_direction(&d) runs; res keeps the outcome
CallPointAddDirection ==
    /\ pc[Tester] = "call"
    /\ \E r \in AddDirectionOutcomes(req[Tester].point, req[Tester].direction) :
          res' = [res EXCEPT ![Tester] = r]
    /\ pc' = [pc EXCEPT ![Tester] = "idle"]
    /\ UNCHANGED <<games, lock, req, reply, game, actor, mailbox, tickWait,
                   tickSend, nextUid, nreq>>

PointNext == CallPointAddDirection

PointSpec == PointInit /\ [][PointNext]_vars

(***************************************************************************)
(***************************************************************************)
(* CreateSpec: GameTask::new called once with any board                    *)
(***************************************************************************)
\* the widths and heights given to GameTask::new
Sides == 1..MaxSide

\* the test is about to call GameTask::new(width, height, _)
CreateInit ==
    /\ games = {}
    /\ lock = NoCaller
    /\ pc = [c \in Callers |-> IF c = Tester THEN "call" ELSE "idle"]
    /\ \E w \in Sides, h \in Sides :
          req = [c \in Callers |->
                    IF c = Tester
                    THEN [op |-> "game_task_new", width |-> w, height |-> h]
                    ELSE NoRequest]
    /\ res = [c \in Callers |-> None]
    /\ reply = [c \in Callers |-> NoReply]
    /\ game = [g \in {} |-> NewGame(1, 3)]
    /\ actor = [g \in GameIds |-> "none"]
    /\ mailbox = [g \in GameIds |-> <<>>]
    /\ tickWait = [g \in GameIds |-> 0]
    /\ tickSend = [g \in GameIds |-> 0]
    /\ nextUid = 1
    /\ nreq = 0

\* GameTask::new(width, height, _) runs: the actor is spawned with its Game
CallGameTaskNew ==
    /\ pc[Tester] = "call"
    /\ SpawnActor(TheGame, req[Tester].width, req[Tester].height)
    /\ pc' = [pc EXCEPT ![Tester] = "idle"]
    /\ UNCHANGED <<games, lock, req, res, reply, mailbox, tickWait, tickSend,
                   nextUid, nreq>>

CreateNext == CallGameTaskNew

CreateSpec == CreateInit /\ [][CreateNext]_vars

(***************************************************************************)
(* TaskSpec: one GameTask, created on any board and driven through         *)
(* send_command by a test that awaits each reply, as the tests of          *)
(* game_task.rs drive it                                                   *)
(***************************************************************************)
\* the commands the test can send now: a JoinGame while user ids are left,
\* or an UpdateGame for a user id generated so far or one that never was
TestCommands ==
    {[NoRequest EXCEPT !.op = "JoinGame", !.game_id = TheGame] :
        u \in {x \in UserIds : x = nextUid}}
    \cup
    {[NoRequest EXCEPT !.op = "UpdateGame", !.game_id = TheGame,
                       !.user_id = u, !.direction = d] :
        u \in KnownUsers, d \in Direction}

\* game_task.send_command(cmd): the test then awaits resp_rx
TestSends ==
    /\ pc[Tester] = "idle"
    /\ TheGame \in Spawned
    /\ nreq < MaxTaskCalls
    /\ \E r \in TestCommands :
          /\ req' = [req EXCEPT ![Tester] = r]
          /\ mailbox' = [mailbox EXCEPT ![TheGame] = Enqueue(@, CommandOf(Tester, r))]
    /\ pc' = [pc EXCEPT ![Tester] = "recv"]
    /\ nreq' = nreq + 1
    /\ UNCHANGED <<games, lock, res, reply, game, actor, tickWait, tickSend,
                   nextUid>>

\* resp_rx.await completes: res keeps the response
TestReceives ==
    /\ pc[Tester] = "recv"
    /\ reply[Tester].status = "value"
    /\ Return(Tester, reply[Tester].value)
    /\ UNCHANGED <<games, lock, game, actor, mailbox, tickWait, tickSend,
                   nextUid, nreq>>

TaskNext ==
    \/ CallGameTaskNew
    \/ TestSends
    \/ JoinGame(TheGame)
    \/ UpdateGame(TheGame)
    \/ TestReceives

TaskSpec == CreateInit /\ [][TaskNext]_vars

(***************************************************************************)
(* EastSpec: one Game on which nobody votes, ticked until it is over, as   *)
(* the actor of a started match ticks it                                   *)
(***************************************************************************)
\* boards (width, height) given to Game::new in EastSpec
EastBoards == {<<4, 1>>, <<6, 1>>, <<7, 2>>, <<8, 3>>}

EastInit ==
    /\ games = {}
    /\ lock = NoCaller
    /\ pc = [c \in Callers |-> "idle"]
    /\ req = [c \in Callers |-> NoRequest]
    /\ res = [c \in Callers |-> None]
    /\ reply = [c \in Callers |-> NoReply]
    /\ \E b \in EastBoards : game = [g \in {TheGame} |-> NewGame(b[2], b[1])]
    /\ actor = [g \in GameIds |-> IF g = TheGame THEN "running" ELSE "none"]
    /\ mailbox = [g \in GameIds |-> <<>>]
    /\ tickWait = [g \in GameIds |-> 0]
    /\ tickSend = [g \in GameIds |-> 0]
    /\ nextUid = 1
    /\ nreq = 0

\* the Tick arm of the actor: game.tick(max_spaces), until the game is over
EastTick == CallTick /\ game[TheGame].game_over = None

EastNext == EastTick

\* every Tick the loop sends is eventually processed
EastSpec == EastInit /\ [][EastNext]_vars /\ WF_vars(EastTick)

(* Properties                                                              *)
(***************************************************************************)
IsOver(gm) == gm.game_over # None

\* C1: terminal state is permanent. Once a game's game_over is a reason R,
\* every later step leaves game_over = R and leaves the body and the food
\* as they were, whatever is called on the game (tick included).
C1_TerminalStatePermanent ==
    [][\A g \in DOMAIN game :
          IsOver(game[g]) =>
              /\ game'[g].game_over = game[g].game_over
              /\ game'[g].rusty.body = game[g].rusty.body
              /\ game'[g].food = game[g].food]_vars

\* On the 3 x 1 board the first tick ends the game whatever the direction,
\* so a second tick is a tick applied to a finished game.
C1_Witness ==
    /\ game[TheGame].width = 3 /\ game[TheGame].height = 1
    /\ game[TheGame].game_over = "OutOfBounds"
    /\ game[TheGame].epoch >= 2
    /\ actor[TheGame] = "running"

\* C2: Tick is idempotent once the game is over. As claimed: a tick applied
\* to a finished game leaves the snapshot (tick counter, reason, body, food)
\* and the version counter as they were.
C2_TickIdempotentOnceOver ==
    [][(CallTick /\ IsOver(game[TheGame])) =>
          /\ IntoGameState(game'[TheGame]) = IntoGameState(game[TheGame])
          /\ game'[TheGame].game_state_version = game[TheGame].game_state_version]_vars

\* the actor of g is gone: it left its loop or panicked
Gone(g) == actor[g] \in {"exited", "panicked"}

\* this step, the actor of g took a command off its mailbox
Consumes(g) == Len(mailbox'[g]) < Len(mailbox[g])

\* the reply is Err(InvalidUser)
IsNotJoined(rep) ==
    /\ rep.status = "value"
    /\ rep.value.kind = "Err"
    /\ rep.value.error = "InvalidUser"

\* C3: after a match is over, a Status request by a joined player returns a
\* snapshot carrying the reason. As claimed: such a request, looked up after
\* the match became over, does not return an error.
C3_StatusAfterOverReportsReason ==
    [][\A c \in Callers :
          (/\ pc[c] = "lookup" /\ pc'[c] # "lookup"
           /\ req[c].op = "GameStatus"
           /\ req[c].game_id \in games
           /\ IsOver(game[req[c].game_id])
           /\ req[c].user_id \in game[req[c].game_id].users)
          => ~(pc'[c] = "idle" /\ res'[c] \in {"Internal", "InvalidGame", "InvalidUser"})]_vars

\* C4: membership gates Start, UpdateDirection and Status. When the actor
\* handles one of them for a user id outside the game's users, the reply is
\* InvalidUser and the game and its tick loops are unchanged; for a user id
\* in users the reply is never InvalidUser.
C4_MembershipGates ==
    [][\A g \in DOMAIN game :
          (/\ actor[g] = "running" /\ mailbox[g] # <<>>
           /\ mailbox[g][1].kind \in {"StartGame", "UpdateGame", "GameStatus"}
           /\ Consumes(g))
          => LET cmd == mailbox[g][1]
             IN  IF cmd.user_id \in game[g].users
                 THEN cmd.rx # NoCaller =>
                        /\ reply'[cmd.rx].status = "value"
                        /\ ~IsNotJoined(reply'[cmd.rx])
                 ELSE /\ game'[g] = game[g]
                      /\ tickWait'[g] = tickWait[g]
                      /\ tickSend'[g] = tickSend[g]
                      /\ cmd.rx # NoCaller => IsNotJoined(reply'[cmd.rx])]_vars

\* a caller was refused as not joined, and a match started by a member has
\* its tick loop
C4_Witness ==
    /\ \E c \in Callers : res[c] = "InvalidUser"
    /\ \E g \in DOMAIN game :
          game[g].users # {} /\ tickWait[g] + tickSend[g] > 0

\* C5: a join, start, update or status whose game id is not a key of the
\* directory returns InvalidGame, enqueues nothing and changes no match.
C5_UnknownGameNotFound ==
    [][\A c \in Callers :
          (/\ pc[c] = "lookup" /\ pc'[c] # "lookup"
           /\ req[c].game_id \notin games)
          => /\ pc'[c] = "idle" /\ res'[c] = "InvalidGame"
             /\ UNCHANGED <<games, game, actor, mailbox, reply, tickWait,
                            tickSend, nextUid>>]_vars

\* a caller got InvalidGame while a match exists and has a command queued
C5_Witness ==
    /\ \E c \in Callers : res[c] = "InvalidGame"
    /\ \E g \in games : mailbox[g] # <<>>

\* the request of c is addressed to a registered match whose actor is gone
\* and has not been answered
AddressedToGone(c) ==
    /\ pc[c] \in {"lookup", "send", "recv"}
    /\ req[c].game_id \in games
    /\ Gone(req[c].game_id)
    /\ pc[c] = "recv" => reply[c].status # "value"

\* C6: a request addressed to a match whose actor is gone never hangs.
\* Whether its command was queued when the actor went or is sent later, the
\* caller eventually gets Internal.
C6_RequestToGoneActorReturns ==
    \A c \in Callers :
        AddressedToGone(c) ~> (pc[c] = "idle" /\ res[c] = "Internal")

\* a caller awaits the reply to a command that was queued when the actor went
C6_Witness ==
    \E c \in Callers :
        /\ pc[c] = "recv" /\ reply[c] = ClosedReply
        /\ Gone(req[c].game_id)

\* C7: the Tick that makes the match terminal is the last command its actor
\* processes. That Tick ends the actor, and once the actor is gone nothing is
\* applied: the game, its players and votes stay as they are, no tick loop
\* is spawned and nothing is queued.
C7_TerminalTickIsLast ==
    [][\A g \in DOMAIN game :
          /\ (~IsOver(game[g]) /\ IsOver(game'[g])) => Gone(g)'
          /\ Gone(g) =>
               /\ game'[g] = game[g]
               /\ actor'[g] = actor[g]
               /\ mailbox'[g] = <<>>
               /\ tickWait'[g] + tickSend'[g] <= tickWait[g] + tickSend[g]]_vars

\* a match is over, its actor has left the loop, and a later request to it
\* was turned away
C7_Witness ==
    \E g \in games :
        /\ IsOver(game[g]) /\ actor[g] = "exited"
        /\ \E c \in Callers : res[c] = "Internal"

\* C8: every tick loop terminates once its actor is gone, and injects no
\* further Tick.
C8_TickLoopsTerminate ==
    /\ \A g \in GameIds : Gone(g) ~> (tickWait[g] = 0 /\ tickSend[g] = 0)
    /\ [][\A g \in GameIds : Gone(g) => mailbox'[g] = <<>>]_vars

\* an actor left its loop after a Tick and none of its tick loops is left
C8_Witness ==
    \E g \in games :
        /\ actor[g] = "exited" /\ game[g].epoch >= 1
        /\ tickWait[g] = 0 /\ tickSend[g] = 0

\* C9: at most one tick loop is ever active for a match. As claimed: the
\* loops of a match, waiting on their interval or sending, number at most 1.
C9_AtMostOneTickLoop ==
    \A g \in GameIds : tickWait[g] + tickSend[g] <= 1

\* C10: the directory mutex is never held across the mailbox round trip.
\* As claimed: no caller holds it while suspended in send or awaiting a reply.
C10_LockNotHeldAcrossRoundTrip ==
    \A c \in Callers : pc[c] \in {"send", "recv"} => lock # c

\* C11: the commands of a match are applied one at a time in the order they
\* were enqueued. A send puts its command behind what is queued; the actor
\* takes the oldest command; the game changes only in such a step and by
\* that command alone; an UpdateGame of a member leaves the member's vote at
\* its direction and replies with a snapshot of the game as it left it.
C11_CommandsAppliedInOrder ==
    [][\A g \in DOMAIN game :
          LET q == mailbox[g]
              cmd == q[1]
          IN  /\ Len(mailbox'[g]) > Len(q) =>
                    /\ Len(mailbox'[g]) = Len(q) + 1
                    /\ SubSeq(mailbox'[g], 1, Len(q)) = q
              /\ Consumes(g) => mailbox'[g] \in {Tail(q), <<>>}
              /\ game'[g] # game[g] =>
                    /\ Consumes(g)
                    /\ cmd.kind \in {"JoinGame", "UpdateGame", "Tick"}
                    /\ cmd.kind = "JoinGame" =>
                          game'[g] = AddUser(game[g], nextUid)
                    /\ cmd.kind = "UpdateGame" =>
                          game'[g] = AddUserDirection(game[g], cmd.user_id,
                                                      cmd.direction)
                    /\ cmd.kind = "Tick" =>
                          \E o \in Tick(game[g], MaxSpaces(game[g])) :
                              game'[g] = o.game
              /\ (/\ Consumes(g) /\ cmd.kind = "UpdateGame"
                  /\ cmd.user_id \in game[g].users) =>
                    /\ game'[g].requested_directions[cmd.user_id] = cmd.direction
                    /\ cmd.rx # NoCaller =>
                          /\ reply'[cmd.rx].status = "value"
                          /\ reply'[cmd.rx].value.kind = "Ok"
                          /\ reply'[cmd.rx].value.state \in IntoGameState(game'[g])]_vars

\* a Tick and a vote have been applied to a running match and a command is
\* queued behind them
C11_Witness ==
    \E g \in games :
        /\ actor[g] = "running" /\ game[g].epoch >= 1
        /\ DOMAIN game[g].requested_directions # {}
        /\ mailbox[g] # <<>>

\* the players whose current vote is d
VotesFor(votes, d) == Cardinality({u \in DOMAIN votes : votes[u] = d})

\* d is held by strictly more current votes than every other direction
StrictlyMost(votes, d) ==
    \A e \in Direction \ {d} : VotesFor(votes, d) > VotesFor(votes, e)

\* C12: majority vote. Whenever one direction is held by strictly more
\* players' current votes than every other direction, calculate_direction
\* returns that direction.
C12_MajorityVote ==
    [][CallCalculateDirection =>
          \A d \in Direction :
              StrictlyMost(TheVotes, d) => res'[Tester] = d]_vars

\* calculate_direction returned South for three votes South and one North
C12_Witness ==
    /\ req[Tester].op = "calculate_direction"
    /\ VotesFor(TheVotes, "South") = 3 /\ VotesFor(TheVotes, "North") = 1
    /\ res[Tester] = "South"

\* C13: each player contributes at most one vote. An add_direction(u, d)
\* leaves the map with the entries it had for the other players and one
\* entry for u, equal to d; the number of entries is the number of players
\* that have voted; and when u already held d, the tally is what it was.
C13_OneVotePerPlayer ==
    [][CallAddDirection =>
          LET u == req'[Tester].user_id
              d == req'[Tester].direction
              before == TheVotes
              after == TheVotes'
          IN  /\ DOMAIN after = DOMAIN before \cup {u}
              /\ after[u] = d
              /\ \A v \in DOMAIN before \ {u} : after[v] = before[v]
              /\ VotesLen(after) = Cardinality(DOMAIN before \cup {u})
              /\ \A e \in Direction :
                    VotesFor(after, e) =
                        Cardinality({v \in DOMAIN before \ {u} : before[v] = e})
                        + (IF e = d THEN 1 ELSE 0)
              /\ (u \in DOMAIN before /\ before[u] = d) =>
                    DirectionsCount(after) = DirectionsCount(before)]_vars

\* more add_direction calls were made than there are entries: a player
\* voted again, and the map holds the direction of the latest call
C13_Witness ==
    /\ req[Tester].op = "add_direction"
    /\ nreq > VotesLen(TheVotes) /\ VotesLen(TheVotes) >= 2
    /\ TheVotes[req[Tester].user_id] = req[Tester].direction

\* the directions a tick of gm may take according to the votes: with no
\* votes the direction of travel, otherwise a direction no other direction
\* has more votes than
Effective(gm) ==
    LET votes == gm.requested_directions
    IN  IF DOMAIN votes = {} THEN {gm.rusty.direction}
        ELSE {d \in Direction :
                /\ VotesFor(votes, d) >= 1
                /\ \A e \in Direction : VotesFor(votes, e) <= VotesFor(votes, d)}

\* C14: a tick of a running game moves the head by exactly one cell in the
\* effective direction: the resolved vote when votes exist, otherwise the
\* direction of travel.
C14_TickMovesHeadOneCell ==
    [][(CallTick /\ ~IsOver(game[TheGame])) =>
          LET old == game[TheGame]
              new == game'[TheGame]
              from == BodyHead(old.rusty)
              to == BodyHead(new.rusty)
          IN  \E d \in Effective(old) :
                  /\ new.rusty.direction = d
                  /\ to = AddDirection(from, d)
                  /\ \/ to.x = from.x /\ to.y - from.y \in {-1, 1}
                     \/ to.y = from.y /\ to.x - from.x \in {-1, 1}]_vars

\* on the 4 x 3 board: a tick with no votes went East, then a tick with a
\* vote for North went North
C14_Witness ==
    /\ game[TheGame].game_over = None
    /\ game[TheGame].rusty.direction = "North"
    /\ game[TheGame].rusty.body = <<Point(3, 0), Point(3, 1), Point(2, 1)>>

\* C15: win condition. As claimed: a tick of a running game after which the
\* body length is width x height leaves the game over with reason Winner,
\* and the tick completes.
C15_FullBoardWins ==
    [][(PlayTick /\ ~IsOver(game[TheGame])) =>
          LET new == game'[TheGame]
          IN  Len(new.rusty.body) = new.width * new.height =>
                  /\ new.game_over = "Winner"
                  /\ actor'[TheGame] = "running"]_vars

\* C16: within one tick the game-over checks are first-writer-wins in the
\* order winner, out of bounds, self-collision. As claimed: after a tick of a
\* running game the reason recorded is that of the first check, in this
\* order, that holds for the moved body.
C16_FirstWriterWins ==
    [][(CallTick /\ ~IsOver(game[TheGame])) =>
          LET gm == game'[TheGame]
              first ==
                  IF Len(gm.rusty.body) = MaxSpaces(gm) THEN "Winner"
                  ELSE IF IsOutOfBounds(BodyHead(gm.rusty), gm.width, gm.height)
                       THEN "OutOfBounds"
                  ELSE IF IsCollideWithSelf(gm.rusty) THEN "CollideWithSelf"
                  ELSE None
          IN  gm.game_over = first]_vars

\* C17: out of bounds. As claimed: a tick of a running game that moves the
\* head to a cell outside the board leaves the game over with reason
\* OutOfBounds, and a tick whose new head is inside the board never does.
C17_OutOfBoundsReported ==
    [][(PlayTick /\ ~IsOver(game[TheGame])) =>
          LET gm == game'[TheGame]
          IN  IsOutOfBounds(BodyHead(gm.rusty), gm.width, gm.height)
                  <=> gm.game_over = "OutOfBounds"]_vars

\* C18: growth law of move_in_direction(direction, food). The new body is
\* the new head (the old head offset one cell in direction) followed by the
\* old body, without the old tail cell unless the new head equals food; the
\* call returns true iff the new head equals food; the length grows by 1
\* when it returns true and is unchanged otherwise.
C18_GrowthLaw ==
    [][CallMoveInDirection =>
          LET old == TheBody.body
              new == TheBody'.body
              d == req'[Tester].direction
              food == req'[Tester].food
              head == AddDirection(old[1], d)
              grew == res'[Tester]
          IN  /\ grew = (head = food)
              /\ new[1] = head
              /\ grew => new = <<head>> \o old
              /\ ~grew => new = <<head>> \o SubSeq(old, 1, Len(old) - 1)
              /\ Len(new) = Len(old) + (IF grew THEN 1 ELSE 0)]_vars

\* a body that grew twice moved on without growing
C18_Witness ==
    /\ req[Tester].op = "move_in_direction"
    /\ Len(TheBody.body) = 5
    /\ res[Tester] = FALSE

\* C19: for every point p and direction d, add_direction(p, d) changes
\* exactly one coordinate by exactly one unit. As claimed: every call returns
\* North (x, y - 1), South (x, y + 1), East (x + 1, y), West (x - 1, y).
C19_AddDirectionTable ==
    [][CallPointAddDirection =>
          LET p == req[Tester].point
              d == req[Tester].direction
              r == res'[Tester]
          IN  /\ r.status = "ok"
              /\ d = "North" => (r.point.x = p.x /\ r.point.y = p.y - 1)
              /\ d = "South" => (r.point.x = p.x /\ r.point.y = p.y + 1)
              /\ d = "East"  => (r.point.x = p.x + 1 /\ r.point.y = p.y)
              /\ d = "West"  => (r.point.x = p.x - 1 /\ r.point.y = p.y)]_vars

\* C20: is_collide_with_self is true iff the head cell equals some other
\* cell of the body, and a tick on which it is true ends in CollideWithSelf.
\* After a tick of a running game: the function is true exactly when the head
\* is on another cell of the body, it is false when the cells of the body are
\* all different, and the reason is CollideWithSelf exactly when it is true.
C20_SelfCollision ==
    [][(PlayTick /\ ~IsOver(game[TheGame])) =>
          LET gm == game'[TheGame]
              b == gm.rusty.body
              others == {b[i] : i \in 2..Len(b)}
          IN  /\ IsCollideWithSelf(gm.rusty) <=> b[1] \in others
              /\ Cardinality(Cells(b)) = Len(b) => ~IsCollideWithSelf(gm.rusty)
              /\ IsCollideWithSelf(gm.rusty) <=> gm.game_over = "CollideWithSelf"]_vars

\* a body of 5 cells went round a closed loop: its head is on its last cell
\* and the game is over with CollideWithSelf
C20_Witness ==
    LET b == game[TheGame].rusty.body
    IN  /\ Len(b) = 5 /\ b[1] = b[5]
        /\ Cardinality(Cells(b)) = 4
        /\ game[TheGame].game_over = "CollideWithSelf"

\* C21: every Join processed by a live actor creates a new player. The users
\* of the game grow by exactly one identifier that was not among them, no
\* other part of the game changes, no tick loop is spawned, and the reply
\* carries that identifier with the width and height the match was created
\* with, in this order.
C21_JoinCreatesNewPlayer ==
    [][\A g \in DOMAIN game :
          (Receiving(g, "JoinGame") /\ Consumes(g)) =>
              LET cmd == mailbox[g][1]
                  old == game[g]
              IN  \E u \in UserIds \ old.users :
                      /\ game'[g] = [old EXCEPT !.users = @ \cup {u}]
                      /\ Cardinality(game'[g].users) = Cardinality(old.users) + 1
                      /\ actor'[g] = "running"
                      /\ tickWait'[g] = tickWait[g] /\ tickSend'[g] = tickSend[g]
                      /\ cmd.rx # NoCaller =>
                            /\ reply'[cmd.rx].status = "value"
                            /\ reply'[cmd.rx].value.user_id = u
                            /\ reply'[cmd.rx].value.width = old.width
                            /\ reply'[cmd.rx].value.height = old.height
                            /\ <<reply'[cmd.rx].value.width,
                                 reply'[cmd.rx].value.height>> \in Boards]_vars

\* a second Join of a match was answered: the match has two players and the
\* reply carries the second identifier and the board 4 wide and 1 high
C21_Witness ==
    \E c \in Callers :
        /\ reply[c].status = "value"
        /\ reply[c].value.kind = "JoinGameReply"
        /\ reply[c].value.width = 4 /\ reply[c].value.height = 1
        /\ \E g \in games :
              /\ Cardinality(game[g].users) = 2
              /\ reply[c].value.user_id \in game[g].users

C23_CreateNeverFails ==
    [][/\ \A c \in Callers :
            (CreateGame(c) \/ CreateGameInsert(c)) =>
                /\ pc'[c] = "idle" /\ res'[c] = "Ok"
                /\ \E id \in GameIds \ games :
                      /\ games' = games \cup {id}
                      /\ id \in DOMAIN game'
                /\ \A g \in games :
                      /\ game'[g] = game[g]
                      /\ actor'[g] = actor[g]
                      /\ mailbox'[g] = mailbox[g]
       /\ games \subseteq games'
       /\ \A c \in Callers :
            (/\ pc[c] = "lookup" /\ pc'[c] = "idle"
             /\ req[c].game_id \in games)
            => /\ res'[c] # "InvalidGame"
               /\ Gone(req[c].game_id) => res'[c] = "Internal"]_vars

\* the directory holds two matches, the actor of one is gone, and a request
\* was answered Internal
C23_Witness ==
    /\ Cardinality(games) = 2
    /\ \E g \in games : Gone(g)
    /\ \E c \in Callers : res[c] = "Internal"

\* C24: an UpdateGame of a joined player on a running match records the
\* vote and replies at once with the current snapshot, without simulating.
\* The game changes in its votes only; the reply's tick counter, body, food
\* and game-over reason are those of the game before the command; its
\* direction is a resolution of the votes with the new vote among them, and
\* with a single voter it is that voter's direction.
C24_UpdateRepliesWithSnapshot ==
    [][\A g \in DOMAIN game :
          (/\ Receiving(g, "UpdateGame") /\ Consumes(g)
           /\ mailbox[g][1].user_id \in game[g].users)
          => LET cmd == mailbox[g][1]
                 old == game[g]
                 votes == game'[g].requested_directions
             IN  /\ game'[g] = [old EXCEPT !.requested_directions = votes]
                 /\ cmd.user_id \in DOMAIN votes
                 /\ votes[cmd.user_id] = cmd.direction
                 /\ actor'[g] = "running"
                 /\ cmd.rx # NoCaller =>
                       /\ reply'[cmd.rx].status = "value"
                       /\ reply'[cmd.rx].value.kind = "Ok"
                       /\ LET s == reply'[cmd.rx].value.state
                          IN  /\ s.tick = old.epoch
                              /\ s.body = old.rusty.body
                              /\ s.food = old.food
                              /\ s.game_over_reason = old.game_over
                              /\ s.direction \in CalculateDirection(votes)
                              /\ DOMAIN votes = {cmd.user_id} =>
                                    s.direction = cmd.direction]_vars

\* after a Tick, a player's vote for South was answered with a snapshot
\* whose tick counter is 1 and whose direction is South
C24_Witness ==
    \E c \in Callers :
        /\ pc[c] = "recv" /\ req[c].op = "UpdateGame"
        /\ reply[c].status = "value" /\ reply[c].value.kind = "Ok"
        /\ reply[c].value.state.tick = 1
        /\ reply[c].value.state.direction = "South"
        /\ reply[c].value.state.direction # game[req[c].game_id].rusty.direction

\* C25: snapshot caching. As claimed: the game keeps the last version
\* computed and the last snapshot produced, so once a GameStatus of a
\* member has been answered the cache holds the version counter of the game
\* and the snapshot that was sent.
C25_SnapshotCached ==
    [][\A g \in DOMAIN game :
          (/\ Receiving(g, "GameStatus") /\ Consumes(g)
           /\ mailbox[g][1].user_id \in game[g].users
           /\ mailbox[g][1].rx # NoCaller)
          => LET cache == game'[g].game_state_cache
             IN  /\ cache.last_returned_game_state_version
                        = game'[g].game_state_version
                 /\ cache.last_returned_game_state
                        = reply'[mailbox[g][1].rx].value.state]_vars

\* C26: after every tick in which the body grew and the game stays running
\* (the tick completes and no game-over reason is set), the new food cell
\* lies inside the board and is not occupied by any body cell.
C26_NewFoodOnFreeCell ==
    [][(/\ PlayTick /\ ~IsOver(game[TheGame])
        /\ Len(game'[TheGame].rusty.body) > Len(game[TheGame].rusty.body)
        /\ ~IsOver(game'[TheGame])
        /\ actor'[TheGame] = "running")
       => LET gm == game'[TheGame]
          IN  /\ 0 <= gm.food.x /\ gm.food.x < gm.width
              /\ 0 <= gm.food.y /\ gm.food.y < gm.height
              /\ \A i \in 1..Len(gm.rusty.body) : gm.rusty.body[i] # gm.food]_vars

\* a running game whose body has grown twice and whose food is on a free
\* cell of the board other than the one it was created on
C26_Witness ==
    LET gm == game[TheGame]
    IN  /\ actor[TheGame] = "running" /\ ~IsOver(gm)
        /\ Len(gm.rusty.body) = 5
        /\ gm.food \in BoardCells(gm.width, gm.height) \ Cells(gm.rusty.body)
        /\ gm.food # NewGame(gm.height, gm.width).food

\* a step of the match g: of its actor or of one of its tick loops
MatchStep(g) == ActorStep(g) \/ TickerStep(g)

\* C27: matches are isolated. A step of one match (its actor processing a
\* command or a Tick, ending on game over or panicking, or one of its tick
\* loops) leaves every other match as it was: game, actor, mailbox and tick
\* loops. It leaves the directory, its mutex and every caller's position as
\* they were, and changes the reply channel only of callers addressing that
\* match; when it ends the actor, no caller is left waiting on a reply that
\* cannot come. A match's game and actor change only in a step of its own
\* actor.
C27_MatchesIsolated ==
    [][\A g \in GameIds :
          /\ MatchStep(g) =>
                /\ \A h \in GameIds \ {g} :
                      /\ actor'[h] = actor[h]
                      /\ mailbox'[h] = mailbox[h]
                      /\ tickWait'[h] = tickWait[h]
                      /\ tickSend'[h] = tickSend[h]
                      /\ h \in DOMAIN game => game'[h] = game[h]
                /\ DOMAIN game' = DOMAIN game
                /\ games' = games /\ lock' = lock
                /\ pc' = pc /\ req' = req
                /\ \A c \in Callers :
                      /\ reply'[c] # reply[c] => req[c].game_id = g
                      /\ (Gone(g)' /\ pc[c] = "recv" /\ req[c].game_id = g) =>
                            reply'[c].status # "none"
          /\ (g \in DOMAIN game /\ (game'[g] # game[g] \/ actor'[g] # actor[g]))
                => ActorStep(g)]_vars

\* the actor of one match has panicked and another match is running with a
\* player who joined it
C27_Witness ==
    \E g \in games, h \in games :
        /\ actor[g] = "panicked"
        /\ actor[h] = "running" /\ game[h].users # {}
        /\ \E c \in Callers : res[c] = "Ok"

\* C28: membership failures are detected at the directory layer. As
\* claimed: a start, update or status for a registered match whose user id
\* has not joined it returns InvalidUser straight from the lookup, with no
\* command enqueued and no wait on a reply channel.
C28_MembershipCheckedByDirectory ==
    [][\A c \in Callers :
          (/\ pc[c] = "lookup" /\ pc'[c] # "lookup"
           /\ req[c].op \in {"StartGame", "UpdateGame", "GameStatus"}
           /\ req[c].game_id \in games
           /\ ~UserHasJoinedGame(game[req[c].game_id], req[c].user_id))
          => /\ pc'[c] = "idle" /\ res'[c] = "InvalidUser"
             /\ mailbox' = mailbox]_vars

\* C29: calculate_direction is idempotent. As claimed: two evaluations with
\* no vote recorded in between return the same result, tied votes included.
C29_ResolveIdempotent ==
    [][(CallCalculateDirection /\ req[Tester].op = "calculate_direction")
       => res'[Tester] = res[Tester]]_vars

\* C30: votes survive ticks. A tick leaves the vote map as it was, and a
\* player's vote changes only when add_user_direction is called: a
\* direction voted before a tick is still that player's vote at the next
\* tick and later.
C30_VotesSurviveTicks ==
    [][LET before == game[TheGame].requested_directions
           after == game'[TheGame].requested_directions
       IN  /\ CallTick => after = before
           /\ after # before => CallAddUserDirection
           /\ \A u \in DOMAIN before : u \in DOMAIN after]_vars

\* on the 4 x 3 board a player's vote for North was applied by two ticks
\* in a row and is still in the vote map
C30_Witness ==
    LET gm == game[TheGame]
    IN  /\ gm.epoch = 2
        /\ gm.rusty.body = <<Point(2, -1), Point(2, 0), Point(2, 1)>>
        /\ \E u \in DOMAIN gm.requested_directions :
              gm.requested_directions[u] = "North"

\* C31: the player count of a snapshot. As claimed: every snapshot sent in
\* reply to a GameStatus or an UpdateGame carries the number of players who
\* have joined the match.
C31_PlayerCountIsJoined ==
    [][\A g \in DOMAIN game :
          (/\ actor[g] = "running" /\ mailbox[g] # <<>> /\ Consumes(g)
           /\ mailbox[g][1].kind \in {"GameStatus", "UpdateGame"}
           /\ mailbox[g][1].rx # NoCaller
           /\ mailbox[g][1].user_id \in game[g].users)
          => reply'[mailbox[g][1].rx].value.state.num_users
                 = Cardinality(game'[g].users)]_vars

\* C32: body invariant. As claimed: in every state between calls, the
\* finished games included, the body is non-empty and holds no point twice.
C32_BodyHasNoDuplicates ==
    \A g \in DOMAIN game :
        LET b == game[g].rusty.body
        IN  /\ Len(b) >= 1
            /\ \A i \in 1..Len(b) : \A j \in 1..Len(b) : b[i] = b[j] => i = j

\* C33: on a fresh 10 x 10 match, after one Join and one UpdateGame(South)
\* by that player and before any Tick. As claimed: the reply snapshot is
\* tick 0, no game-over reason, direction South, num_users 1, body (2,5),
\* (1,5), (0,5), height 10, width 10 and food (0,0).
C33_FirstUpdateSnapshot ==
    [][(/\ UpdateGame(TheGame)
        /\ game[TheGame].width = 10 /\ game[TheGame].height = 10
        /\ game[TheGame].epoch = 0
        /\ Cardinality(game[TheGame].users) = 1
        /\ DOMAIN game[TheGame].requested_directions = {}
        /\ mailbox[TheGame][1].user_id \in game[TheGame].users
        /\ mailbox[TheGame][1].direction = "South")
       => reply'[Tester].value =
              [kind |-> "Ok",
               state |-> [tick |-> 0,
                          game_over_reason |-> None,
                          direction |-> "South",
                          body |-> <<Point(2, 5), Point(1, 5), Point(0, 5)>>,
                          num_users |-> 1,
                          height |-> 10,
                          width |-> 10,
                          food |-> Point(0, 0)]]]_vars

\* C34: on every board at least 3 wide and 1 high. As claimed: in every
\* state where the game is running the body cells are pairwise distinct and
\* inside the board, the body length is at least 3 and less than
\* width x height; and the length never decreases from one state to the
\* next.
C34_RunningBodyInvariant ==
    /\ [](\A g \in DOMAIN game :
            LET gm == game[g]
                b == gm.rusty.body
            IN  (gm.width >= 3 /\ gm.height >= 1
                 /\ ~IsOver(gm) /\ actor[g] = "running")
                => /\ \A i \in 1..Len(b) : \A j \in 1..Len(b) :
                          b[i] = b[j] => i = j
                   /\ \A i \in 1..Len(b) :
                          ~IsOutOfBounds(b[i], gm.width, gm.height)
                   /\ Len(b) >= 3
                   /\ Len(b) < gm.width * gm.height)
    /\ [][\A g \in DOMAIN game :
            Len(game'[g].rusty.body) >= Len(game[g].rusty.body)]_vars

\* C35: on every board at least 3 wide and 1 high. As claimed: in every
\* state where the game is running, the initial one included, the food cell
\* is inside the board and is not occupied by any body cell.
C35_FoodOnFreeCell ==
    \A g \in DOMAIN game :
        LET gm == game[g]
        IN  (gm.width >= 3 /\ gm.height >= 1
             /\ ~IsOver(gm) /\ actor[g] = "running")
            => /\ ~IsOutOfBounds(gm.food, gm.width, gm.height)
               /\ gm.food \notin Cells(gm.rusty.body)

\* no tick loop of g exists, no Tick is queued for g and none was processed
NotStarted(g) ==
    /\ tickWait[g] + tickSend[g] = 0
    /\ QueuedTicks(g) = 0
    /\ game[g].epoch = 0

\* C36: no simulation happens before Start. A match is created with no tick
\* loop and no Tick queued or processed; it leaves that condition only when
\* its actor processes a StartGame of a joined player, whatever Joins,
\* Updates, Statuses and rejected Starts occur; and while no Tick has been
\* processed its tick counter is 0 and its body, food and game-over reason
\* are the initial ones.
C36_NoSimulationBeforeStart ==
    /\ [](\A g \in DOMAIN game :
            game[g].epoch = 0 =>
                LET fresh == NewGame(game[g].height, game[g].width)
                IN  /\ game[g].rusty = fresh.rusty
                    /\ game[g].food = fresh.food
                    /\ game[g].game_over = None)
    /\ [][\A g \in GameIds :
            /\ (g \notin DOMAIN game /\ g \in DOMAIN game') => NotStarted(g)'
            /\ (g \in DOMAIN game /\ NotStarted(g) /\ ~NotStarted(g)') =>
                  /\ StartGame(g)
                  /\ UserHasJoinedGame(game[g], mailbox[g][1].user_id)
                  /\ tickWait'[g] = 1 /\ game'[g] = game[g]]_vars

\* a match with a player and a vote, to which a Start was refused, has no
\* tick loop and has not moved
C36_Witness ==
    \E g \in games :
        /\ NotStarted(g) /\ actor[g] = "running"
        /\ game[g].users # {}
        /\ DOMAIN game[g].requested_directions # {}
        /\ \E c \in Callers : res[c] = "InvalidUser"

\* the request of c is pending: it waits for the mutex, looks up, sends or
\* awaits its reply
Pending(c) == pc[c] # "idle"

\* C37: deadlock freedom. Under fair scheduling, whenever requests are
\* pending they all eventually return, although callers hold the directory
\* mutex while they wait. Hence no reachable state has a pending request
\* with every task blocked: stuttering there for ever would be a fair
\* behaviour in which the request never returns.
C37_DeadlockFree ==
    (\E c \in Callers : Pending(c)) ~> (\A c \in Callers : ~Pending(c))

\* one caller holds the mutex while it awaits a reply, the other waits for
\* the mutex, and the mailbox of the match is full
C37_Witness ==
    \E c \in Callers, d \in Callers :
        /\ pc[c] = "recv" /\ lock = c
        /\ pc[d] \in {"lock", "create"}
        /\ Len(mailbox[req[c].game_id]) = MailboxCap

\* C38: a started match in which nobody votes. As claimed: under fair
\* scheduling the snake keeps heading East and the game eventually is over
\* with reason OutOfBounds.
C38_UnsteeredMatchLeavesBoard ==
    /\ [](game[TheGame].rusty.direction = "East")
    /\ <>(game[TheGame].game_over = "OutOfBounds")

\* C39: reversing is fatal. A completed tick of a running game whose
\* effective direction (the player's vote) is the opposite of the body's
\* direction of travel puts the head on the cell that was second in the
\* body and leaves the game over with reason CollideWithSelf, whatever the
\* length of the body.
C39_ReversingIsFatal ==
    [][(/\ PlayTick /\ ~IsOver(game[TheGame])
        /\ actor'[TheGame] = "running"
        /\ ThePlayer \in DOMAIN game[TheGame].requested_directions
        /\ AddDirection(AddDirection(Point(0, 0), game[TheGame].rusty.direction),
                        game[TheGame].requested_directions[ThePlayer])
               = Point(0, 0))
       => /\ game'[TheGame].rusty.direction
                 = game[TheGame].requested_directions[ThePlayer]
          /\ BodyHead(game'[TheGame].rusty) = game[TheGame].rusty.body[2]
          /\ IsCollideWithSelf(game'[TheGame].rusty)
          /\ game'[TheGame].game_over = "CollideWithSelf"]_vars

\* a body that had grown to four cells reversed from North to South: its
\* head is on the cell two behind it and the game is over
C39_Witness ==
    LET gm == game[TheGame]
    IN  /\ gm.game_over = "CollideWithSelf"
        /\ Len(gm.rusty.body) = 4
        /\ gm.rusty.direction = "South"
        /\ gm.rusty.body[1] = gm.rusty.body[3]
        /\ gm.rusty.body[2] = AddDirection(gm.rusty.body[1], "North")

\* C40: an abandoned request never stops the actor. Whenever the actor of
\* a match takes a Join, Start, UpdateDirection or Status command whose
\* caller has dropped its reply receiver, the actor is still running
\* afterwards and only that command has left its mailbox.
C40_AbandonNeverStopsActor ==
    [][\A g \in GameIds :
          (/\ ActorStep(g)
           /\ mailbox[g][1].kind \in {"JoinGame", "StartGame", "UpdateGame",
                                      "GameStatus"}
           /\ mailbox[g][1].rx = NoCaller)
          => /\ actor'[g] = "running"
             /\ mailbox'[g] = Tail(mailbox[g])]_vars

====
